---- MODULE Spec2Model ----
(***************************************************************************)
(* lazytables (src/lazytables.py): a class decorated with @lazytables      *)
(* becomes a namespace of tables.  Reading an attribute goes through the   *)
(* descriptor _TableReader.__get__, writing goes through _TableWriter      *)
(* (call form, attribute form, batch form).  The user's read and write     *)
(* functions are opaque: what they return, and whether they raise, is an   *)
(* input of the step that calls them.                                      *)
(***************************************************************************)
EXTENDS Integers, Sequences, FiniteSets, TLC

\* ------------------------------------------------------------- bounds ----
MaxOps == 3      \* constructions, reads and writes in one run
MaxBatch == 2    \* entries of a batch mapping
MaxBatchOps == 2 \* operations in one run of SpecBatch

\* ------------------------------------------------------ Python values ----
None == "None"
Ellipsis == "Ellipsis"
Callable == "<function>"
Empty == "{}"                       \* an empty container: falsy
DataValues == {Empty, "w1"}         \* tables handed to a write
ReadResults == {Empty, "r1", "r2"}  \* tables the read function may return
Raises == "<raises>"                \* the user function raises instead

truthy(v) == v \notin {None, Empty}

\* outcomes of an operation
Ok == "ok"
ConfigurationError == "AttributeError: Lazytables object does not have a write function"
ArgumentError == "ValueError: Must provide either a name and data, or a mapping"
LookupError == "AttributeError: Invalid table name"
DefinitionError == "ValueError: Invalid table name (reserved)"
TypeError == "TypeError"
Propagated == "raised by the user's function"
NoReturn == "<no value>"

\* --------------------------------------------------- decorated classes ---
\* A class body: __dict__ as a sequence of <<name, value>>, __annotations__
\* as a sequence of names.
S3Data == [__dict__ |-> << <<"table_two", "table-two.csv">>,
                          <<"_private", "x">>,
                          <<"helper", Callable>> >>,
           __annotations__ |-> << "table_one" >>]
WithTables == [__dict__ |-> << <<"tables", Ellipsis>> >>,
               __annotations__ |-> << "table_one", "tables" >>]
ReservedName == [__dict__ |-> << >>,
                 __annotations__ |-> << "table_one", "write" >>]
\* the class of the module's __main__ block
NGAP == [__dict__ |-> << <<"table_one", Empty>>,
                        <<"table_three", "table - three">>,
                        <<"table_four", Ellipsis>>,
                        <<"table_five", Ellipsis>> >>,
         __annotations__ |-> << "table_one", "table_two", "table_three",
                                "table_four" >>]
ReservedRead == [__dict__ |-> << <<"read", "reads.csv">> >>,
                 __annotations__ |-> << "table_one" >>]
ReadMethod == [__dict__ |-> << <<"read", Callable>> >>,
               __annotations__ |-> << "table_one" >>]
Classes == {S3Data, WithTables, ReservedName, NGAP, ReservedRead, ReadMethod}

TableSpaces == {"t1", "t2"}                       \* instances
WriteNames == {"table_one", "table_two", "tables"} \* names given to a write
ReadNames == WriteNames \cup {"table_three"}       \* attributes read

startswith_underscore(key) == key \in {"_private", "__module__", "__dict__"}

EmptyDict == [k \in {} |-> None]

\* `written` is history: per instance, the value last handed to a call of the
\* write function that returned normally, by table name
VARIABLES cls, phase, _table_mapping, _cache, _write_func, _data, last, nops,
          written

vars == <<cls, phase, _table_mapping, _cache, _write_func, _data, last, nops,
          written>>

\* --------------------------------------------------------- dict helpers --
dict_get(d, k) == IF k \in DOMAIN d THEN d[k] ELSE None

dict_set(d, k, v) == [x \in DOMAIN d \cup {k} |-> IF x = k THEN v ELSE d[x]]

\* ------------------------------------------- _get_cls_table_mapping -----
\* variant: only `write` is reserved
valid_item_write_only(key, value) ==
    IF value = Callable \/ startswith_underscore(key) THEN "False"
    ELSE IF key \in {"write"} THEN "raise"
    ELSE "True"

\* valid_item: "raise" | TRUE | FALSE, as the code orders its tests
valid_item(key, value) ==
    IF value = Callable \/ startswith_underscore(key) THEN "False"
    ELSE IF key \in {"read", "write"} THEN "raise"
    ELSE "True"

RECURSIVE names_and_values_given(_, _)
names_and_values_given(items, k) ==
    IF k > Len(items) THEN EmptyDict
    ELSE LET rest == names_and_values_given(items, k + 1)
             key == items[k][1]
             value == items[k][2]
         IN IF valid_item(key, value) = "True" /\ key \notin DOMAIN rest
            THEN dict_set(rest, key, IF value # Ellipsis THEN value ELSE key)
            ELSE rest

\* variant: an annotation overrides the key given in the class body
RECURSIVE only_names_given_overriding(_, _, _)
only_names_given_overriding(annotations, given, k) ==
    IF k > Len(annotations) THEN EmptyDict
    ELSE LET rest == only_names_given_overriding(annotations, given, k + 1)
             key == annotations[k]
         IN IF valid_item(key, key) = "True"
            THEN dict_set(rest, key, key)
            ELSE rest

RECURSIVE only_names_given(_, _, _)
only_names_given(annotations, given, k) ==
    IF k > Len(annotations) THEN EmptyDict
    ELSE LET rest == only_names_given(annotations, given, k + 1)
             key == annotations[k]
         IN IF valid_item(key, key) = "True" /\ key \notin DOMAIN given
            THEN dict_set(rest, key, key)
            ELSE rest

mapping_raises(c) ==
    \/ \E k \in 1..Len(c.__dict__) :
          valid_item(c.__dict__[k][1], c.__dict__[k][2]) = "raise"
    \/ \E k \in 1..Len(c.__annotations__) :
          valid_item(c.__annotations__[k], c.__annotations__[k]) = "raise"

_get_cls_table_mapping(c) ==
    LET given == names_and_values_given(c.__dict__, 1)
        named == only_names_given(c.__annotations__, given, 1)
    IN [k \in DOMAIN given \cup DOMAIN named |->
           IF k \in DOMAIN named THEN named[k] ELSE given[k]]

\* ------------------------------------------------------ operation log ----
NoArg == [dict |-> FALSE, name |-> "", items |-> << >>]
Name(n) == [dict |-> FALSE, name |-> n, items |-> << >>]
Dict(items) == [dict |-> TRUE, name |-> "", items |-> items]

NoPrior == [kind |-> "other", inst |-> "", value |-> None, fetched |-> FALSE]

NoOp == [op |-> "none", form |-> "", inst |-> "", name_or_mapping |-> NoArg,
         data |-> None, args |-> << >>, kwargs |-> << >>,
         outcome |-> Ok, ret |-> NoReturn, reads |-> << >>, writes |-> << >>,
         callee |-> "", touched |-> {}, prior |-> NoPrior]

Init ==
    /\ cls \in Classes
    /\ phase = "class body"
    /\ _table_mapping = EmptyDict
    /\ _cache = EmptyDict
    /\ _write_func = EmptyDict
    /\ _data = EmptyDict
    /\ last = NoOp
    /\ nops = 0
    /\ written = EmptyDict

\* ------------------------------------------------ lazytables.decorator ---
decorator ==
    /\ phase = "class body"
    /\ IF mapping_raises(cls)
       THEN /\ phase' = "definition error"
            /\ _table_mapping' = _table_mapping
            /\ last' = [NoOp EXCEPT !.op = "decorator", !.outcome = DefinitionError]
       ELSE /\ phase' = "defined"
            /\ _table_mapping' = _get_cls_table_mapping(cls)
            /\ last' = [NoOp EXCEPT !.op = "decorator"]
    /\ UNCHANGED <<cls, _cache, _write_func, _data, nops, written>>

\* ------------------------------------------------------------ __init__ ---
\* variant: construction fetches a declared table into the cache
__init__eager(self, writer, cache) ==
    /\ phase = "defined"
    /\ nops < MaxOps
    /\ self \notin DOMAIN _data
    /\ self = "t1" \/ "t1" \in DOMAIN _data
    /\ _write_func' = dict_set(_write_func, self, writer)
    /\ _cache' = dict_set(_cache, self, cache)
    /\ LET n == CHOOSE n \in DOMAIN _table_mapping : TRUE
       IN /\ _data' = dict_set(_data, self, dict_set(EmptyDict, n, "r1"))
          /\ last' = [NoOp EXCEPT !.op = "__init__", !.inst = self, !.ret = self,
                                  !.reads = << _table_mapping[n] >>]
    /\ written' = dict_set(written, self, EmptyDict)
    /\ nops' = nops + 1
    /\ UNCHANGED <<cls, phase, _table_mapping>>

\* writer = TRUE: a callable was passed; FALSE: the default None
__init__(self, writer, cache) ==
    /\ phase = "defined"
    /\ nops < MaxOps
    /\ self \notin DOMAIN _data
    /\ self = "t1" \/ "t1" \in DOMAIN _data   \* instances are named in order
    /\ _write_func' = dict_set(_write_func, self, writer)
    /\ _cache' = dict_set(_cache, self, cache)
    /\ _data' = dict_set(_data, self, EmptyDict)
    /\ written' = dict_set(written, self, EmptyDict)
    /\ last' = [NoOp EXCEPT !.op = "__init__", !.inst = self, !.ret = self]
    /\ nops' = nops + 1
    /\ UNCHANGED <<cls, phase, _table_mapping>>

\* -------------------------------------------------- the user's functions --
\* _read_func(key): `fetched` is what the user's function does on this call
_read_func(key, fetched) ==
    [outcome |-> IF fetched = Raises THEN Propagated ELSE Ok,
     ret |-> IF fetched = Raises THEN NoReturn ELSE fetched,
     reads |-> << key >>]

\* ------------------------------------------------ _TableReader.__get__ ---
\* variant: the cache is consulted whatever inst._cache says
__get__ignoring_flag(key, value, inst, fetched) ==
    LET data == dict_get(_data[inst], key)
    IN IF ~ truthy(data)
       THEN _read_func(value, fetched) @@ [cache |-> _data[inst]]
       ELSE [outcome |-> Ok, ret |-> data, reads |-> << >>, cache |-> _data[inst]]

\* variant: a fetched table is kept in the cache map
__get__storing(key, value, inst, fetched) ==
    IF ~ _cache[inst]
    THEN _read_func(value, fetched) @@ [cache |-> _data[inst]]
    ELSE LET data == dict_get(_data[inst], key)
             r == _read_func(value, fetched)
         IN IF ~ truthy(data)
            THEN r @@ [cache |-> IF r.outcome = Ok
                                 THEN dict_set(_data[inst], key, r.ret)
                                 ELSE _data[inst]]
            ELSE [outcome |-> Ok, ret |-> data, reads |-> << >>,
                  cache |-> _data[inst]]

\* variant: a cached entry is served whenever it is present, falsy or not
__get__presence_only(key, value, inst, fetched) ==
    IF ~ _cache[inst]
    THEN _read_func(value, fetched) @@ [cache |-> _data[inst]]
    ELSE IF key \notin DOMAIN _data[inst]
         THEN _read_func(value, fetched) @@ [cache |-> _data[inst]]
         ELSE [outcome |-> Ok, ret |-> _data[inst][key], reads |-> << >>,
               cache |-> _data[inst]]

\* the descriptor _TableReader(key, value) read on instance inst; `cache` is
\* inst._data when the method returns
__get__(key, value, inst, fetched) ==
    IF ~ _cache[inst]
    THEN _read_func(value, fetched) @@ [cache |-> _data[inst]]
    ELSE LET data == dict_get(_data[inst], key)
         IN IF ~ truthy(data)
            THEN _read_func(value, fetched) @@ [cache |-> _data[inst]]
            ELSE [outcome |-> Ok, ret |-> data, reads |-> << >>,
                  cache |-> _data[inst]]

\* the names whose entry differs between two states of one instance's _data
touched(before, after) ==
    {n \in DOMAIN before \cup DOMAIN after :
        \/ n \notin DOMAIN before
        \/ n \notin DOMAIN after
        \/ before[n] # after[n]}

\* the previous operation, when it was a successful read or single write of
\* the same table of the same instance
Prior(inst, name) ==
    IF last.inst # inst \/ last.outcome # Ok THEN NoPrior
    ELSE IF last.op = "read" /\ last.name_or_mapping = Name(name)
    THEN [kind |-> "read", inst |-> inst, value |-> last.ret,
          fetched |-> last.reads # << >>]
    ELSE IF last.op = "write" /\ last.name_or_mapping = Name(name)
    THEN [kind |-> "write", inst |-> inst, value |-> last.data, fetched |-> FALSE]
    ELSE NoPrior

Read(inst, name, fetched) ==
    /\ phase = "defined"
    /\ nops < MaxOps
    /\ inst \in DOMAIN _data
    /\ name \in DOMAIN _table_mapping
    /\ LET r == __get__(name, _table_mapping[name], inst, fetched)
       IN /\ _data' = [_data EXCEPT ![inst] = r.cache]
          /\ last' = [NoOp EXCEPT !.op = "read", !.inst = inst,
                                  !.name_or_mapping = Name(name),
                                  !.data = IF r.reads # << >> THEN fetched
                                           ELSE None,
                                  !.outcome = r.outcome, !.ret = r.ret,
                                  !.reads = r.reads, !.callee = inst,
                                  !.touched = touched(_data[inst], r.cache),
                                  !.prior = Prior(inst, name)]
    /\ nops' = nops + 1
    /\ UNCHANGED <<cls, phase, _table_mapping, _cache, _write_func, written>>

\* ---------------------------------------------------------- _TableWriter --
\* variant: one writer serves every instance, bound to the other namespace
tables_of_other(self) ==
    LET other == IF self = "t1" THEN "t2" ELSE "t1"
    IN IF other \in DOMAIN _data THEN other ELSE self

\* the dataclass field `tables` of the writer that __init__ builds for self:
\* every self.tables.<x> of the writer goes through it
tables(self) == self

\* instance attributes of a _TableWriter: normal lookup finds these, so
\* __getattr__ is not consulted for them
WriterFields == {"tables"}

\* def __call__(self, name_or_mapping, data=None, **kwargs): no *args
signature_binds(args) == Len(args) = 0

has_write_func(self) == _write_func[tables(self)]

\* variant: a mapping given together with data is let through
invalid_arguments_name_only(name_or_mapping, data) ==
    ~ name_or_mapping.dict /\ data = None

invalid_arguments(name_or_mapping, data) ==
    \/ (~ name_or_mapping.dict /\ data = None)
    \/ (name_or_mapping.dict /\ data # None)

as_mapping(name_or_mapping, data) ==
    IF ~ name_or_mapping.dict
    THEN << <<name_or_mapping.name, data>> >>
    ELSE name_or_mapping.items

\* variant: the declared name is used as the resource key
table_id_is_name(table_name) == table_name

\* table_id = self.tables._table_mapping[table_name]
table_id(table_name) == _table_mapping[table_name]

\* one call of the user's write function, as the function sees it
_write_func_call(key, data, kwargs) ==
    [key |-> key, data |-> data, kwargs |-> kwargs]

\* variant: the write does not reach the cache
update_cache_dropped(self, cache, table_name, data) == cache

\* variant: the write reaches the cache only when caching is enabled
update_cache_if_enabled(self, cache, table_name, data) ==
    IF _cache[self] THEN dict_set(cache, table_name, data) ELSE cache

\* self.tables._data[table_name] = data
update_cache(self, cache, table_name, data) == dict_set(cache, table_name, data)

\* variant: the cache entry is set before the write function is called
RECURSIVE write_loop_cache_first(_, _, _, _, _, _, _)
write_loop_cache_first(self, mapping, k, kwargs, failAt, cache, writes) ==
    IF k > Len(mapping)
    THEN [outcome |-> Ok, ret |-> tables(self), writes |-> writes, cache |-> cache]
    ELSE LET table_name == mapping[k][1]
             data == mapping[k][2]
         IN IF table_name \notin DOMAIN _table_mapping
            THEN [outcome |-> LookupError, ret |-> NoReturn,
                  writes |-> writes, cache |-> cache]
            ELSE LET called == Append(writes, _write_func_call(table_id(table_name),
                                                               data, kwargs))
                     cached == update_cache(tables(self), cache, table_name, data)
                 IN IF Len(called) = failAt
                    THEN [outcome |-> Propagated, ret |-> NoReturn,
                          writes |-> called, cache |-> cached]
                    ELSE write_loop_cache_first(self, mapping, k + 1, kwargs,
                                                failAt, cached, called)

\* variant: an undeclared name is skipped and the loop goes on
RECURSIVE write_loop_skipping(_, _, _, _, _, _, _)
write_loop_skipping(self, mapping, k, kwargs, failAt, cache, writes) ==
    IF k > Len(mapping)
    THEN [outcome |-> IF \E j \in 1..Len(mapping) :
                           mapping[j][1] \notin DOMAIN _table_mapping
                      THEN LookupError ELSE Ok,
          ret |-> IF \E j \in 1..Len(mapping) :
                       mapping[j][1] \notin DOMAIN _table_mapping
                  THEN NoReturn ELSE tables(self),
          writes |-> writes, cache |-> cache]
    ELSE LET table_name == mapping[k][1]
             data == mapping[k][2]
         IN IF table_name \notin DOMAIN _table_mapping
            THEN write_loop_skipping(self, mapping, k + 1, kwargs, failAt,
                                     cache, writes)
            ELSE LET called == Append(writes, _write_func_call(table_id(table_name),
                                                               data, kwargs))
                 IN IF Len(called) = failAt
                    THEN [outcome |-> Propagated, ret |-> NoReturn,
                          writes |-> called, cache |-> cache]
                    ELSE write_loop_skipping(self, mapping, k + 1, kwargs, failAt,
                                             update_cache(tables(self), cache,
                                                          table_name, data),
                                             called)

\* the for loop of __call__ from entry k on; `writes` are the calls of the
\* user's write function made so far, `cache` is self.tables._data
RECURSIVE write_loop(_, _, _, _, _, _, _)
write_loop(self, mapping, k, kwargs, failAt, cache, writes) ==
    IF k > Len(mapping)
    THEN [outcome |-> Ok, ret |-> tables(self), writes |-> writes, cache |-> cache]
    ELSE LET table_name == mapping[k][1]
             data == mapping[k][2]
         IN IF table_name \notin DOMAIN _table_mapping
            THEN [outcome |-> LookupError, ret |-> NoReturn,
                  writes |-> writes, cache |-> cache]
            ELSE LET called == Append(writes, _write_func_call(table_id(table_name),
                                                               data, kwargs))
                 IN IF Len(called) = failAt
                    THEN [outcome |-> Propagated, ret |-> NoReturn,
                          writes |-> called, cache |-> cache]
                    ELSE write_loop(self, mapping, k + 1, kwargs, failAt,
                                    update_cache(tables(self), cache, table_name,
                                                 data),
                                    called)

__call__(self, name_or_mapping, data, args, kwargs, failAt) ==
    LET unchanged(outcome) == [outcome |-> outcome, ret |-> NoReturn,
                               writes |-> << >>, cache |-> _data[tables(self)]]
        r == IF ~ signature_binds(args) THEN unchanged(TypeError)
             ELSE IF ~ has_write_func(self) THEN unchanged(ConfigurationError)
             ELSE IF invalid_arguments(name_or_mapping, data)
             THEN unchanged(ArgumentError)
             ELSE write_loop(self, as_mapping(name_or_mapping, data), 1, kwargs,
                             failAt, _data[tables(self)], << >>)
    IN r @@ [tables |-> tables(self)]

write_wrapper(self, table_name, data, args, kwargs, failAt) ==
    __call__(self, Name(table_name), data, args, kwargs, failAt)

\* self.write.<table_name>(data, *args, **kwargs)
__getattr__(self, table_name, data, args, kwargs, failAt) ==
    IF table_name \in WriterFields
    THEN \* the field's value, a TableSpace, is what gets called
         [outcome |-> TypeError, ret |-> NoReturn, writes |-> << >>,
          cache |-> _data[tables(self)], tables |-> tables(self)]
    ELSE write_wrapper(self, table_name, data, args, kwargs, failAt)

\* ------------------------------------------------------- inputs of a write
distinct_names(items) ==
    \A j, k \in 1..Len(items) : j # k => items[j][1] # items[k][1]

\* a dict of at most MaxBatch entries, in iteration order
Mappings ==
    {m \in UNION {[1..n -> WriteNames \X DataValues] : n \in 0..MaxBatch} :
        distinct_names(m)}

NoExtras == [args |-> << >>, kwargs |-> << >>]
Keyword == [args |-> << >>, kwargs |-> << "index" >>]
Positional == [args |-> << "x" >>, kwargs |-> << >>]

\* one write: its arguments, and which call of the user's write function
\* raises (0: none)
WriteInput(name_or_mapping, data, extras, failAt) ==
    [name_or_mapping |-> name_or_mapping, data |-> data, args |-> extras.args,
     kwargs |-> extras.kwargs, failAt |-> failAt]

target(name_or_mapping) ==
    IF name_or_mapping.dict THEN "" ELSE name_or_mapping.name

\* the entries of `items` up to the n-th, laid over w
RECURSIVE returned_writes(_, _, _, _)
returned_writes(w, items, k, n) ==
    IF k > n THEN w
    ELSE returned_writes(dict_set(w, items[k][1], items[k][2]), items, k + 1, n)

\* r is what the writer of `self` did: r.tables is the namespace whose write
\* function and _data it used
Written(self, form, chained, name_or_mapping, data, args, kwargs, r) ==
    /\ _data' = [_data EXCEPT ![r.tables] = r.cache]
    /\ written' =
         [written EXCEPT ![r.tables] =
            returned_writes(@, as_mapping(name_or_mapping, data), 1,
                            IF r.outcome = Propagated THEN Len(r.writes) - 1
                            ELSE Len(r.writes))]
    /\ last' = [op |-> "write", form |-> form, inst |-> self,
                name_or_mapping |-> name_or_mapping, data |-> data,
                args |-> args, kwargs |-> kwargs, outcome |-> r.outcome,
                ret |-> r.ret, reads |-> << >>, writes |-> r.writes,
                callee |-> r.tables,
                touched |-> touched(_data[r.tables], r.cache),
                prior |-> IF chained
                          THEN [kind |-> "chain", inst |-> last.inst,
                                value |-> None, fetched |-> FALSE]
                          ELSE Prior(self, target(name_or_mapping))]
    /\ nops' = nops + 1
    /\ UNCHANGED <<cls, phase, _table_mapping, _cache, _write_func>>

\* tables.write(name_or_mapping, data, *args, **kwargs)
WriteCall(self, in) ==
    /\ phase = "defined"
    /\ nops < MaxOps
    /\ self \in DOMAIN _data
    /\ Written(self, "call", FALSE, in.name_or_mapping, in.data, in.args, in.kwargs,
               __call__(self, in.name_or_mapping, in.data, in.args, in.kwargs,
                        in.failAt))

\* tables.write.<table_name>(data, *args, **kwargs)
WriteAttr(self, in) ==
    /\ phase = "defined"
    /\ nops < MaxOps
    /\ self \in DOMAIN _data
    /\ ~ in.name_or_mapping.dict
    /\ Written(self, "attr", FALSE, in.name_or_mapping, in.data, in.args, in.kwargs,
               __getattr__(self, in.name_or_mapping.name, in.data, in.args,
                           in.kwargs, in.failAt))

\* <what the previous write returned>.write(name_or_mapping, data, **kwargs)
WriteChained(in) ==
    /\ phase = "defined"
    /\ nops < MaxOps
    /\ last.op = "write"
    /\ last.outcome = Ok
    /\ last.ret \in DOMAIN _data
    /\ Written(last.ret, "call", TRUE, in.name_or_mapping, in.data, in.args,
               in.kwargs,
               __call__(last.ret, in.name_or_mapping, in.data, in.args, in.kwargs,
                        in.failAt))

\* ----------------------------------------------------------------- Spec --
\* two namespaces of one definition; reads, single writes in both forms,
\* chained writes, batch writes of at most one entry
Singles ==
    {WriteInput(Name(n), d, NoExtras, f) :
        n \in WriteNames, d \in DataValues \cup {None}, f \in 0..1}

WithExtras ==
    {WriteInput(Name(n), "w1", e, 0) : n \in WriteNames, e \in {Keyword, Positional}}

SmallBatches ==
    {WriteInput(Dict(m), d, NoExtras, 0) :
        m \in {x \in Mappings : Len(x) <= 1}, d \in {None, "w1"}}

Next ==
    \/ decorator
    \/ \E self \in TableSpaces, writer \in BOOLEAN, cache \in BOOLEAN :
          __init__(self, writer, cache)
    \/ \E inst \in TableSpaces, name \in ReadNames,
          fetched \in ReadResults \cup {Raises} :
          Read(inst, name, fetched)
    \/ \E self \in TableSpaces, in \in Singles \cup WithExtras \cup SmallBatches :
          WriteCall(self, in)
    \/ \E self \in TableSpaces, in \in Singles \cup WithExtras : WriteAttr(self, in)
    \/ \E in \in Singles \cup SmallBatches : WriteChained(in)

Spec == Init /\ [][Next]_vars

\* ------------------------------------------------------------ SpecBatch --
\* one namespace; a write of any shape, batch writes of up to MaxBatch
\* entries, with keyword extras, the write function raising at any call
BatchInputs ==
    {WriteInput(Dict(m), None, e, f) :
        m \in Mappings, e \in {NoExtras, Keyword}, f \in 0..MaxBatch}
    \cup {WriteInput(Dict(m), "w1", NoExtras, 0) : m \in Mappings}
    \cup {WriteInput(Name(n), d, e, f) :
            n \in WriteNames, d \in DataValues \cup {None},
            e \in {NoExtras, Keyword, Positional}, f \in 0..1}

NextBatch ==
    \/ decorator
    \/ /\ nops < MaxBatchOps
       /\ \E writer \in BOOLEAN, cache \in BOOLEAN : __init__("t1", writer, cache)
    \/ /\ nops < MaxBatchOps
       /\ \E in \in BatchInputs : WriteCall("t1", in)
    \/ /\ nops < MaxBatchOps
       /\ \E in \in BatchInputs : WriteAttr("t1", in)

SpecBatch == Init /\ [][NextBatch]_vars

\* ================================================================ claims ==
IsRead == last.op = "read"
IsWrite == last.op = "write"
IsBatch == IsWrite /\ last.name_or_mapping.dict
IsSingle == IsWrite /\ ~ last.name_or_mapping.dict
Declared(n) == n \in DOMAIN _table_mapping
Items == IF last.name_or_mapping.dict THEN last.name_or_mapping.items
         ELSE << <<last.name_or_mapping.name, last.data>> >>
ItemNames == {Items[k][1] : k \in 1..Len(Items)}
CacheOf(inst) == _data[inst]

\* C1 -- cache hit idempotence: on an instance with cache=True, a read of
\* table t that directly follows a read of t in which the read function
\* returned a truthy value does not invoke the read function again and
\* returns the value of the first read.
C1_CacheHitIdempotence ==
    (IsRead /\ last.prior.kind = "read" /\ _cache[last.inst]
        /\ last.prior.fetched /\ truthy(last.prior.value))
    => (last.reads = << >> /\ last.ret = last.prior.value)

\* C2 (as stated) -- after a successful write(t, v) the next read of t returns
\* v and does not invoke the read function, whatever the cache flag and v.
C2_WriteVisibleToReads ==
    (IsRead /\ last.prior.kind = "write")
    => (last.reads = << >> /\ last.ret = last.prior.value)

\* C2 (amended) -- on an instance with cache=True, after a successful
\* write(t, v) with a truthy v, the next read of t returns v and does not
\* invoke the read function; with cache=False, or a falsy v, the next read
\* invokes the read function with t's key.
C2_WriteVisibleToCachedReads ==
    (IsRead /\ last.prior.kind = "write")
    => IF _cache[last.inst] /\ truthy(last.prior.value)
       THEN last.reads = << >> /\ last.ret = last.prior.value
       ELSE /\ last.reads = << _table_mapping[last.name_or_mapping.name] >>
            /\ last.outcome = Ok => last.ret = last.data

C2_Witness ==
    /\ IsRead /\ last.prior.kind = "write" /\ _cache[last.inst]
    /\ truthy(last.prior.value)
    /\ last.reads = << >> /\ last.ret = last.prior.value

\* C3 -- cache disabled: on an instance with cache=False every read of a
\* declared table invokes the read function exactly once, with the table's
\* resolved key, returns what that call returned, and changes no entry of
\* the cache map.
C3_CacheDisabled ==
    (IsRead /\ ~ _cache[last.inst])
    => /\ last.reads = << _table_mapping[last.name_or_mapping.name] >>
       /\ last.data # Raises => (last.outcome = Ok /\ last.ret = last.data)
       /\ last.data = Raises => last.outcome = Propagated
       /\ last.touched = {}

\* a read with caching disabled although the cache holds a truthy value
C3_Witness ==
    /\ IsRead /\ ~ _cache[last.inst] /\ last.outcome = Ok
    /\ truthy(dict_get(CacheOf(last.inst), last.name_or_mapping.name))
    /\ last.ret # dict_get(CacheOf(last.inst), last.name_or_mapping.name)

\* C4 -- invalid name rejection: a single-table write (call or attribute
\* form) of a value to a name that is not declared, on an instance with a
\* write function, raises the lookup error, does not invoke the write
\* function and leaves the cache map unchanged.
C4_InvalidNameRejection ==
    (IsSingle /\ ~ Declared(last.name_or_mapping.name) /\ _write_func[last.inst]
        /\ last.data # None /\ last.args = << >>)
    => (last.outcome = LookupError /\ last.writes = << >> /\ last.touched = {})

\* C5 -- batch write: a batch write whose names are all declared, on an
\* instance with a write function, gets past validation; when it returns it
\* has invoked the write function once per entry, in iteration order, with
\* the entry's resolved key and value, the cache holds every entry's value
\* and no other cache entry changed (an empty mapping: no call, no change).
C5_BatchWrite ==
    (IsBatch /\ \A n \in ItemNames : Declared(n))
    => /\ (_write_func[last.inst] /\ last.data = None /\ last.args = << >>)
            => last.outcome \in {Ok, Propagated}
       /\ last.outcome = Ok =>
            /\ last.ret = last.inst
            /\ last.writes =
                 [k \in 1..Len(Items) |->
                    [key |-> _table_mapping[Items[k][1]], data |-> Items[k][2],
                     kwargs |-> last.kwargs]]
            /\ \A k \in 1..Len(Items) :
                 /\ Items[k][1] \in DOMAIN CacheOf(last.inst)
                 /\ CacheOf(last.inst)[Items[k][1]] = Items[k][2]
            /\ last.touched \subseteq ItemNames

\* a batch of two entries with different values and keys went through
C5_Witness ==
    /\ IsBatch /\ last.outcome = Ok /\ Len(Items) = 2
    /\ Items[1][2] # Items[2][2]
    /\ \E k \in 1..2 : _table_mapping[Items[k][1]] # Items[k][1]
    /\ Len(last.writes) = 2

\* C6 -- chaining: every successful write returns the instance that owns the
\* writer; a write chained on that return value acts on the same instance,
\* with the write-function calls and the cache entries of a direct write.
C6_Chaining ==
    /\ (IsWrite /\ last.outcome = Ok) => last.ret = last.inst
    /\ (IsWrite /\ last.prior.kind = "chain") =>
          /\ last.inst = last.prior.inst
          /\ last.outcome = Ok =>
                /\ last.writes =
                     [k \in 1..Len(Items) |->
                        [key |-> _table_mapping[Items[k][1]],
                         data |-> Items[k][2], kwargs |-> last.kwargs]]
                /\ \A k \in 1..Len(Items) :
                     dict_get(CacheOf(last.prior.inst), Items[k][1]) = Items[k][2]

\* write(a, v1).write(b, v2) went through: both tables are cached
C6_Witness ==
    /\ IsSingle /\ last.prior.kind = "chain" /\ last.outcome = Ok
    /\ Cardinality(DOMAIN CacheOf(last.inst)) = 2
    /\ Len(last.writes) = 1

\* C7 -- write-through ignores the cache flag: after any successful write
\* the cache map holds the written value under every written name, also on
\* an instance with cache=False.
C7_WriteThrough ==
    (IsWrite /\ last.outcome = Ok)
    => \A k \in 1..Len(Items) :
          /\ Items[k][1] \in DOMAIN CacheOf(last.inst)
          /\ CacheOf(last.inst)[Items[k][1]] = Items[k][2]

C7_Witness ==
    /\ IsWrite /\ last.outcome = Ok /\ ~ _cache[last.inst]
    /\ Len(last.writes) = 1
    /\ CacheOf(last.inst)[Items[1][1]] = Items[1][2]

\* C8 -- configuration error: any write attempt on an instance without a
\* write function raises the configuration error and leaves the cache map
\* unchanged.
C8_ConfigurationError ==
    (IsWrite /\ ~ _write_func[last.inst])
    => (last.outcome = ConfigurationError /\ last.touched = {})

\* C9 (as stated) -- a write with a non-mapping name and no value, or with a
\* mapping and a value, raises the argument-validation error, with no call
\* of the write function and the cache map unchanged.
C9_ArgumentValidation ==
    (IsWrite /\ last.form = "call" /\ last.args = << >>
        /\ \/ (~ last.name_or_mapping.dict /\ last.data = None)
           \/ (last.name_or_mapping.dict /\ last.data # None))
    => (last.outcome = ArgumentError /\ last.writes = << >> /\ last.touched = {})

\* C9 (amended) -- on an instance that has a write function, a call-form
\* write(name_or_mapping, value, **kwargs) with a non-mapping name and no
\* value, or with a mapping and a value, raises the argument-validation
\* error, with no call of the write function and the cache map unchanged,
\* whether or not the names are declared; without a write function the same
\* call raises the configuration error.
C9_ArgumentValidationWithWriter ==
    (IsWrite /\ last.form = "call" /\ last.args = << >>
        /\ \/ (~ last.name_or_mapping.dict /\ last.data = None)
           \/ (last.name_or_mapping.dict /\ last.data # None))
    => /\ last.outcome = IF _write_func[last.inst] THEN ArgumentError
                         ELSE ConfigurationError
       /\ last.writes = << >>
       /\ last.touched = {}

\* a mapping with an undeclared name, given together with a value, rejected
C9_Witness ==
    /\ IsBatch /\ last.data # None /\ last.outcome = ArgumentError
    /\ \E n \in ItemNames : ~ Declared(n)
    /\ _write_func[last.inst]

\* C10 -- attribute-style sugar: write.<name>(value, **extra) has the outcome
\* of write("<name>", value, **extra): the same calls of the write function,
\* the same cache afterwards, the same return value or the same error.
C10_AttributeSugar ==
    [][(last'.op = "write" /\ last'.form = "attr")
         => \E f \in 0..1 :
               LET r == __call__(last'.inst, last'.name_or_mapping, last'.data,
                                 last'.args, last'.kwargs, f)
               IN /\ r.outcome = last'.outcome
                  /\ r.ret = last'.ret
                  /\ r.writes = last'.writes
                  /\ r.cache = _data'[last'.inst]]_vars

\* ---- the class body, read as declarations
ClassDict(c) == {c.__dict__[k] : k \in 1..Len(c.__dict__)}
Annotated(c) == {c.__annotations__[k] : k \in 1..Len(c.__annotations__)}
\* the names a class body declares as tables
DeclaredNames(c) ==
    {n \in {e[1] : e \in {x \in ClassDict(c) : x[2] # Callable}} \cup Annotated(c) :
        ~ startswith_underscore(n)}
\* the key the class body gives to n: the assigned value, or n itself when
\* nothing, or `...`, is assigned
DeclaredKey(c, n) ==
    IF \E e \in ClassDict(c) : e[1] = n /\ e[2] \notin {Ellipsis, Callable}
    THEN (CHOOSE e \in ClassDict(c) : e[1] = n)[2]
    ELSE n

\* C11 -- key resolution: once the class is defined, the name mapping holds
\* exactly the declared tables, a table declared without a key (or with
\* `...`) under its own name and a table declared with a key under that key,
\* in every state from then on; every call of the read function and of the
\* write function made for a declared name receives the mapping's key for
\* that name.
C11_KeyResolution ==
    phase = "defined" =>
       /\ DOMAIN _table_mapping = DeclaredNames(cls)
       /\ \A n \in DOMAIN _table_mapping : _table_mapping[n] = DeclaredKey(cls, n)
       /\ IsRead => last.reads \in {<< >>, << _table_mapping[last.name_or_mapping.name] >>}
       /\ IsWrite => \A k \in 1..Len(last.writes) :
                        last.writes[k].key = _table_mapping[Items[k][1]]

\* a table declared with a key and an annotation is read: the read function
\* gets the key
C11_Witness ==
    /\ IsRead /\ last.name_or_mapping.name = "table_three"
    /\ last.reads = << "table - three" >>
    /\ _table_mapping["table_two"] = "table_two"

\* a class body that declares a table named read or write
DeclaresReserved(c) ==
    \/ \E e \in ClassDict(c) : e[1] \in {"read", "write"} /\ e[2] # Callable
    \/ \E n \in Annotated(c) : n \in {"read", "write"}

\* C12 -- reserved names: a class that declares a table named read or write,
\* with or without a key, is never defined: the decorator raises the
\* definition error and no instance of the class ever exists.
C12_ReservedNames ==
    DeclaresReserved(cls) =>
       /\ phase \in {"class body", "definition error"}
       /\ phase = "definition error" =>
             (last.op = "decorator" /\ last.outcome = DefinitionError)
       /\ DOMAIN _data = {}
       /\ DOMAIN _table_mapping = {}

\* the decorator has rejected a class that gives `read` an explicit key
C12_Witness ==
    /\ phase = "definition error"
    /\ \E e \in ClassDict(cls) : e[1] = "read" /\ e[2] = "reads.csv"

\* C13 -- instance independence: a read or write on one instance invokes
\* that instance's own read or write function, leaves the cache map of every
\* other instance of the class as it was, and leaves the name mapping that
\* all instances share as it was.
C13_InstanceIndependence ==
    [][last'.op \in {"read", "write"}
         => /\ last'.callee = last'.inst
            /\ \A i \in DOMAIN _data : i # last'.inst => _data'[i] = _data[i]
            /\ DOMAIN _data' = DOMAIN _data
            /\ _table_mapping' = _table_mapping]_vars

\* two instances are live; a write on the second went through and the cache
\* of the first is still empty
C13_Witness ==
    /\ DOMAIN _data = TableSpaces
    /\ IsWrite /\ last.inst = "t2" /\ last.outcome = Ok
    /\ _data["t2"] # EmptyDict /\ _data["t1"] = EmptyDict

\* C14 -- lazy construction: constructing an instance invokes neither the
\* read function nor the write function and leaves the new instance with an
\* empty cache map; the read function is invoked by reads only, the write
\* function by writes only.
C14_LazyConstruction ==
    /\ last.op = "__init__" =>
          /\ last.reads = << >> /\ last.writes = << >>
          /\ last.inst \in DOMAIN _data /\ _data[last.inst] = EmptyDict
    /\ last.reads # << >> => IsRead
    /\ last.writes # << >> => IsWrite

\* a second instance is constructed after the first was written to
C14_Witness ==
    /\ last.op = "__init__" /\ last.inst = "t2"
    /\ _data["t1"] # EmptyDict /\ _data["t2"] = EmptyDict

\* the name read or written singly by the last operation
LastName == last.name_or_mapping.name

\* C15 -- read-through fills the cache: on an instance with cache=True, a
\* read of a table that has no cached entry invokes the read function with
\* the table's key, returns what it fetched and leaves that value in the
\* cache map under the table's name.
C15_ReadThroughFillsCache ==
    (IsRead /\ _cache[last.inst] /\ last.outcome = Ok
        /\ (LastName \notin DOMAIN CacheOf(last.inst) \/ LastName \in last.touched))
    => /\ last.reads = << _table_mapping[LastName] >>
       /\ last.ret = last.data
       /\ LastName \in DOMAIN CacheOf(last.inst)
       /\ CacheOf(last.inst)[LastName] = last.ret

\* C16 -- a falsy cached value forces a refetch: on an instance with
\* cache=True, a read of a table whose cached entry is present but falsy
\* invokes the read function with the table's key and returns what it
\* fetched; a read of a table whose cached entry is truthy returns that
\* entry and does not invoke the read function.
C16_FalsyCachedValueRefetch ==
    (IsRead /\ _cache[last.inst] /\ LastName \in DOMAIN CacheOf(last.inst)
        /\ LastName \notin last.touched)
    => IF truthy(CacheOf(last.inst)[LastName])
       THEN /\ last.reads = << >>
            /\ last.outcome = Ok
            /\ last.ret = CacheOf(last.inst)[LastName]
       ELSE /\ last.reads = << _table_mapping[LastName] >>
            /\ last.data # Raises => (last.outcome = Ok /\ last.ret = last.data)
            /\ last.data = Raises => last.outcome = Propagated

\* an empty table was written, the read fetched again and got another value
C16_Witness ==
    /\ IsRead /\ _cache[last.inst] /\ last.outcome = Ok
    /\ LastName \in DOMAIN CacheOf(last.inst)
    /\ CacheOf(last.inst)[LastName] = Empty
    /\ last.reads # << >> /\ last.ret = "r1"

\* the call the write function gets for the k-th entry of the last write
CallFor(k) == [key |-> _table_mapping[Items[k][1]], data |-> Items[k][2],
               kwargs |-> last.kwargs]
\* the position of the first undeclared name of the last write (0: none)
FirstUndeclared ==
    IF \A k \in 1..Len(Items) : Declared(Items[k][1]) THEN 0
    ELSE CHOOSE k \in 1..Len(Items) :
            /\ ~ Declared(Items[k][1])
            /\ \A j \in 1..(k - 1) : Declared(Items[j][1])

\* C17 -- batch write fails fast, without rollback: a batch write that
\* reaches an undeclared name (on an instance with a write function, the
\* write function returning for the entries before it) raises the lookup
\* error; the write function has been invoked, in order, for exactly the
\* entries before the first undeclared name, the cache map holds their
\* values, and no entry at or after that name was passed on or cached.
C17_BatchFailFast ==
    (IsBatch /\ FirstUndeclared > 0 /\ _write_func[last.inst]
        /\ last.data = None /\ last.args = << >> /\ last.outcome # Propagated)
    => /\ last.outcome = LookupError
       /\ last.ret = NoReturn
       /\ last.writes = [k \in 1..(FirstUndeclared - 1) |-> CallFor(k)]
       /\ \A k \in 1..(FirstUndeclared - 1) :
             dict_get(CacheOf(last.inst), Items[k][1]) = Items[k][2]
       /\ last.touched \subseteq {Items[k][1] : k \in 1..(FirstUndeclared - 1)}

\* the second entry of a batch is undeclared: the first one was written and
\* is cached
C17_Witness ==
    /\ IsBatch /\ FirstUndeclared = 2 /\ last.outcome = LookupError
    /\ Len(last.writes) = 1
    /\ last.touched = {Items[1][1]}

\* C18 -- a failing write function does not poison the cache: when the
\* write function raises for an entry, the error propagates, the cache entry
\* of that name is as it was before the write, the entries written before it
\* in the same batch keep their new cached values, and no later entry is
\* passed to the write function.
C18_FailingWriteKeepsCache ==
    (IsWrite /\ last.outcome = Propagated)
    => LET j == Len(last.writes)
       IN /\ j \in 1..Len(Items)
          /\ last.ret = NoReturn
          /\ last.writes = [k \in 1..j |-> CallFor(k)]
          /\ Items[j][1] \notin last.touched
          /\ \A k \in 1..(j - 1) :
                dict_get(CacheOf(last.inst), Items[k][1]) = Items[k][2]
          /\ last.touched \subseteq {Items[k][1] : k \in 1..(j - 1)}

\* the write function raised for the second entry of a batch of two: the
\* first entry is cached, the second is not
C18_Witness ==
    /\ IsBatch /\ last.outcome = Propagated /\ Len(Items) = 2
    /\ Len(last.writes) = 2
    /\ last.touched = {Items[1][1]}
    /\ Items[2][1] \notin DOMAIN CacheOf(last.inst)

\* C19 -- extras are forwarded: a write of a declared table (call form,
\* attribute form or batch) with extra positional and keyword arguments goes
\* through to the write function, and every call of the write function gets
\* the extras unchanged after the key and the value.
C19_ExtrasForwarded ==
    (IsWrite /\ _write_func[last.inst]
        /\ ~ invalid_arguments(last.name_or_mapping, last.data)
        /\ (\A n \in ItemNames : Declared(n))
        /\ (last.form = "attr" => LastName \notin WriterFields))
    => /\ last.outcome \in {Ok, Propagated}
       /\ last.outcome = Ok => Len(last.writes) = Len(Items)
       /\ \A k \in 1..Len(last.writes) :
             LET call == last.writes[k]
                 positional == IF "args" \in DOMAIN call THEN call.args ELSE << >>
             IN /\ call.kwargs = last.kwargs
                /\ positional = last.args

====
